---------------------------- MODULE Spec2Model ----------------------------
(***************************************************************************)
(* Authentication and session-security core of gigaChat                    *)
(* (src/app/core/security.py, settings from src/app/core/config.py).       *)
(*                                                                         *)
(* One module, several specifications, one per subsystem:                  *)
(*   SpecSessions      create_session, each call run to completion         *)
(*   SpecSessionsExpiry create_session, with sessions outliving expires_at *)
(*   SpecSessionsConc  create_session, calls interleaved statement-wise    *)
(*   SpecLockoutApi    check_account_lockout and handle_failed_login,      *)
(*                     called in any order                                 *)
(*   SpecLockout       login attempts, each run to completion              *)
(*   SpecLockoutConc   login attempts of concurrent requests               *)
(*   SpecToken         create_access_token and verify_token                *)
(*   SpecHasher        get_password_hash and verify_password               *)
(*   SpecPolicy        validate_password_strength and is_password_breached *)
(*   SpecCsrf          CSRFMiddleware.dispatch                             *)
(*   SpecRbac          RBACPolicy.check_permission                         *)
(*   SpecUpload        upload_file and scan_file                           *)
(*   SpecModerate      ContentModerator.moderate_file                      *)
(* Every specification initialises all the variables and leaves the ones   *)
(* of the other subsystems unchanged.                                      *)
(***************************************************************************)
EXTENDS Integers, Sequences, FiniteSets, TLC

VARIABLES
    now,        \* the clock read by datetime.utcnow() / func.now()
    sessions,   \* the sessions table: a sequence of rows, row id = index
    cs,         \* create_session calls in flight: per process, its position and locals
    acct,       \* the users row of one account: its lockout columns
    attempt,    \* history: the last login attempt, what it saw and how it ended
    streak,     \* history: failed logins in a row, each inside the window of the one
                \* before; for the first failure after a successful login, the run
                \* that the login ended, if that run is still inside the window
    logins,     \* login requests in flight: per process, its position and its copy of the row
    verifs,     \* history: wrong passwords verified since the account was last reset
    tz,         \* the time zone of the process, in seconds east of UTC
    tok,        \* the token string a caller holds
    issued,     \* history: the create_access_token call that made tok, if one did
    result,     \* what verify_token answered for tok at this instant
    cred,       \* Credential Hasher: a password, its hash, a candidate and the verdict
    policy,     \* Password Policy Engine: a password, the breach service, the answer
    csrf,       \* CSRFMiddleware: the requests in dispatch, how far each has come
                \* and what was answered
    rbac,       \* RBACPolicy: a request for permission and the answers
    upload,     \* upload_file: a call, its surroundings and what it left behind
    modfile     \* moderate_file: the calls in flight, their surroundings and
                \* answers, and the temporary files that exist

sessVars == <<sessions, cs>>
lockVars == <<acct, attempt, streak, logins, verifs>>
tokVars == <<tz, tok, issued, result>>
pwVars == <<cred, policy>>
webVars == <<csrf, rbac, upload, modfile>>
vars == <<now, sessions, cs, acct, attempt, streak, logins, verifs,
          tz, tok, issued, result, cred, policy, csrf, rbac, upload, modfile>>

\* what the actions of one subsystem leave alone
notSess == <<lockVars, tokVars, pwVars, webVars>>
notLock == <<sessVars, tokVars, pwVars, webVars>>
notTok == <<sessVars, lockVars, pwVars, webVars>>
notPw == <<sessVars, lockVars, tokVars, webVars>>
notWeb == <<now, sessVars, lockVars, tokVars, pwVars>>

\* NULL in a column, None in Python: no instant, no id (instants and ids are >= 0)
None == 0 - 1

-----------------------------------------------------------------------------
(* Settings (src/app/core/config.py)                                       *)

MAX_CONCURRENT_SESSIONS == 10
REFRESH_TOKEN_EXPIRE_DAYS == 30
ACCOUNT_LOCKOUT_THRESHOLD == 5
ACCOUNT_LOCKOUT_WINDOW_MINUTES == 15
ACCOUNT_LOCKOUT_DURATION_MINUTES == 30
ACCESS_TOKEN_EXPIRE_MINUTES == 60
PASETO_LEEWAY_SECONDS == 60
PASETO_ISSUER == "GigaChat"
PASETO_AUDIENCE == "GigaChat-Web"
MIN_PASSWORD_LENGTH == 12
BCRYPT_WORK_FACTOR == 12
\* len(secrets.token_urlsafe(32)), the default AUTH_PASSWORD_PEPPER
PepperLength == 43
\* the bytes of its input that bcrypt hashes
BcryptMaxBytes == 72

-----------------------------------------------------------------------------
(* Bounds of the model                                                     *)

MaxSessions == 12   \* rows the sessions table may hold, calls interleaved
MaxRows == 12       \* rows the sessions table may hold, calls run to completion
MaxNow == 1         \* last day of the clock of the session manager
MaxVerifs == 7      \* wrong passwords the concurrent logins may try
MaxAttempts == 7    \* failed_login_attempts up to which handle_failed_login is called
MaxMinutes == 32    \* last minute of the clock of the lockout machine
MaxSeconds == 62    \* last second of the clock of the token service
MaxIssueAt == 2     \* last second at which create_access_token is called
MaxTail == 3        \* characters a password of the policy engine has after its padding
NumSalts == 2       \* salts bcrypt.gensalt may draw

Users == {1, 2}     \* ids of the accounts
Procs == {1, 2}     \* concurrent requests
Devices == {"dev-a"}
Addresses == {"10.0.0.1"}

-----------------------------------------------------------------------------
(* The values a subsystem's variables keep while another subsystem runs    *)

\* a new users row: the column defaults of the model class
NewAccount ==
    [is_locked             |-> FALSE,
     failed_login_attempts |-> 0,
     last_failed_login     |-> None,
     lockout_until         |-> None]

NoAttempt ==
    [at |-> None, correct |-> FALSE, before |-> NewAccount,
     locked |-> FALSE, afterCheck |-> NewAccount, outcome |-> "none"]

IdleLogin == [pc |-> "idle", correct |-> FALSE, loaded |-> NewAccount, row |-> NewAccount]

NoStreak == [n |-> 0, at |-> None, cut |-> 0, cutAt |-> None]

LockoutIdle ==
    /\ acct = NewAccount
    /\ attempt = NoAttempt
    /\ streak = NoStreak
    /\ logins = [p \in Procs |-> IdleLogin]
    /\ verifs = 0

\* no token presented, nothing issued, nothing verified
NoToken == [kind |-> "none", payload |-> <<>>]
NotIssued == [at |-> None, iat |-> None, data |-> <<>>, ttl |-> None, after |-> <<>>]
NotVerified == [outcome |-> "none", payload |-> <<>>, status |-> 0]

TokenIdle ==
    /\ tz = 0
    /\ tok = NoToken
    /\ issued = NotIssued
    /\ result = NotVerified

PasswordIdle ==
    /\ cred = [step |-> "start", truncates |-> TRUE]
    /\ policy = [step |-> "start"]

\* no moderate_file call made
IdleModeration == [pc |-> "idle", env |-> <<>>, result |-> <<>>]

\* no request given to dispatch
IdleDispatch ==
    [pc |-> "idle", request |-> <<>>, invoked |-> FALSE, handler |-> None,
     response |-> <<>>]

WebIdle ==
    /\ csrf = [p \in Procs |-> IdleDispatch]
    /\ rbac = [step |-> "start"]
    /\ upload = [step |-> "start"]
    /\ modfile = [calls |-> [p \in Procs |-> IdleModeration], files |-> {}]

SessionsIdle ==
    /\ sessions = <<>>
    /\ cs = [p \in Procs |-> [pc |-> "idle", user |-> None, device |-> "",
                              ip |-> "", count |-> 0, oldest |-> None]]

-----------------------------------------------------------------------------
(* Session Manager: create_session                                         *)
(* The clock of this subsystem counts days.                                *)

\* rows matched by filter(user_id == user.id, is_active == True)
ActiveSessions(tbl, u) ==
    {i \in DOMAIN tbl : tbl[i].user_id = u /\ tbl[i].is_active}

\* .count() of the filtered query
CountActive(tbl, u) == Cardinality(ActiveSessions(tbl, u))

\* the query ordered by created_at descending
NewestSessions(tbl, u) ==
    {i \in ActiveSessions(tbl, u) :
        \A j \in ActiveSessions(tbl, u) : tbl[i].created_at >= tbl[j].created_at}

\* .order_by(created_at).first(): a row with the least created_at; the
\* database is free to return any of several rows with equal created_at.
\* The empty set stands for first() returning None.
OldestSessions(tbl, u) ==
    {i \in ActiveSessions(tbl, u) :
        \A j \in ActiveSessions(tbl, u) : tbl[i].created_at <= tbl[j].created_at}

\* the update that also ends the lifetime of the row
DeactivateExpiring(tbl, i) ==
    [tbl EXCEPT ![i].is_active = FALSE, ![i].expires_at = tbl[i].created_at]

\* oldest_session.is_active = False; db.commit()
Deactivate(tbl, i) == [tbl EXCEPT ![i].is_active = FALSE]

\* the device description a client sends, and json.dumps of it
DeviceInfo == [os |-> "linux"]
JsonDumps(d) == "{\"os\": \"" \o d.os \o "\"}"

\* UserSession(...): is_active and created_at take the column defaults
NewSession(u, dev, ip, t) ==
    [user_id    |-> u,
     device_id  |-> dev,
     device_info |-> JsonDumps(DeviceInfo),
     ip_address |-> ip,
     is_active  |-> TRUE,
     created_at |-> t,
     expires_at |-> t + REFRESH_TOKEN_EXPIRE_DAYS]

\* the limit test with > for >=
OverLimitOff(count) == count > MAX_CONCURRENT_SESSIONS

\* the test of the concurrent session limit, on the count that was read
OverLimit(count) == count >= MAX_CONCURRENT_SESSIONS

\* the tables the eviction branch can leave behind
AfterEviction(tbl, u) ==
    IF OverLimit(CountActive(tbl, u))
    THEN {Deactivate(tbl, i) : i \in OldestSessions(tbl, u)}
    ELSE {tbl}

IdleCall ==
    [pc |-> "idle", user |-> None, device |-> "", ip |-> "", count |-> 0, oldest |-> None]

\* create_session run to completion: count, evict if at the limit, insert
CreateSession(u, dev, ip) ==
    /\ Len(sessions) < MaxRows
    /\ \E tbl \in AfterEviction(sessions, u) :
          sessions' = Append(tbl, NewSession(u, dev, ip, now))
    /\ UNCHANGED <<now, cs, notSess>>

\* time passes between requests
Tick ==
    /\ now < MaxNow
    /\ now' = now + 1
    /\ UNCHANGED <<sessions, cs, notSess>>

InitSessions ==
    /\ now = 0
    /\ sessions = <<>>
    /\ cs = [p \in Procs |-> IdleCall]
    /\ LockoutIdle
    /\ TokenIdle
    /\ PasswordIdle
    /\ WebIdle

NextSessions ==
    \/ \E u \in Users, dev \in Devices, ip \in Addresses : CreateSession(u, dev, ip)
    \/ Tick

SpecSessions == InitSessions /\ [][NextSessions]_vars

-----------------------------------------------------------------------------
(* create_session on a table whose sessions grow older than their          *)
(* expires_at: the account stays away for a refresh lifetime.              *)

\* REFRESH_TOKEN_EXPIRE_DAYS pass without a request
Away ==
    /\ now <= MaxNow
    /\ now' = now + REFRESH_TOKEN_EXPIRE_DAYS
    /\ UNCHANGED <<sessions, cs, notSess>>

NextSessionsExpiry ==
    \/ \E u \in Users, dev \in Devices, ip \in Addresses : CreateSession(u, dev, ip)
    \/ Tick
    \/ Away

SpecSessionsExpiry == InitSessions /\ [][NextSessionsExpiry]_vars

-----------------------------------------------------------------------------
(* create_session with its statements interleaved among concurrent         *)
(* requests, each request with its own database session.                   *)

\* lines 177-180: the count query
CsCount(p, u, dev, ip) ==
    /\ cs[p].pc = "idle"
    /\ Len(sessions) + Cardinality({q \in Procs : cs[q].pc # "idle"}) < MaxSessions
    /\ cs' = [cs EXCEPT ![p] = [pc     |-> "counted",
                                user   |-> u,
                                device |-> dev,
                                ip     |-> ip,
                                count  |-> CountActive(sessions, u),
                                oldest |-> None]]
    /\ UNCHANGED <<now, sessions, notSess>>

\* lines 182-187: the limit reached, the oldest-session query. The row it
\* returns is held by the call while it waits on the database.
CsSelectOldest(p) ==
    /\ cs[p].pc = "counted"
    /\ OverLimit(cs[p].count)
    /\ IF OldestSessions(sessions, cs[p].user) = {}
       THEN \* first() returned None: the attribute assignment raises
            cs' = [cs EXCEPT ![p] = IdleCall]
       ELSE \E i \in OldestSessions(sessions, cs[p].user) :
                cs' = [cs EXCEPT ![p].pc = "selected", ![p].oldest = i]
    /\ UNCHANGED <<now, sessions, notSess>>

\* lines 189-190: the update of the row that was selected, and its commit
CsEvict(p) ==
    /\ cs[p].pc = "selected"
    /\ sessions' = Deactivate(sessions, cs[p].oldest)
    /\ cs' = [cs EXCEPT ![p].pc = "insert"]
    /\ UNCHANGED <<now, notSess>>

\* line 182, the limit not reached
CsSkipEvict(p) ==
    /\ cs[p].pc = "counted"
    /\ ~OverLimit(cs[p].count)
    /\ cs' = [cs EXCEPT ![p].pc = "insert"]
    /\ UNCHANGED <<now, sessions, notSess>>

\* lines 193-205: the insert and its commit
CsInsert(p) ==
    /\ cs[p].pc = "insert"
    /\ sessions' = Append(sessions, NewSession(cs[p].user, cs[p].device, cs[p].ip, now))
    /\ cs' = [cs EXCEPT ![p] = IdleCall]
    /\ UNCHANGED <<now, notSess>>

NextSessionsConc ==
    \/ \E p \in Procs, u \in Users, dev \in Devices, ip \in Addresses : CsCount(p, u, dev, ip)
    \/ \E p \in Procs : CsSelectOldest(p)
    \/ \E p \in Procs : CsEvict(p)
    \/ \E p \in Procs : CsSkipEvict(p)
    \/ \E p \in Procs : CsInsert(p)

SpecSessionsConc == InitSessions /\ [][NextSessionsConc]_vars

-----------------------------------------------------------------------------
(* Claims about the Session Manager                                        *)

\* C1: after any sequence of create_session calls, each run to completion
\* before the next starts, no account owns more than MAX_CONCURRENT_SESSIONS
\* sessions with is_active = true.
C1_SessionCapSequential ==
    \A u \in Users : CountActive(sessions, u) <= MAX_CONCURRENT_SESSIONS

\* An account at the cap, one of whose sessions an eviction has deactivated.
C1_Witness ==
    \E u \in Users :
        /\ CountActive(sessions, u) = MAX_CONCURRENT_SESSIONS
        /\ \E i \in DOMAIN sessions :
              sessions[i].user_id = u /\ ~sessions[i].is_active

\* C4: when create_session calls for the same account interleave, the number
\* of active sessions of that account never exceeds MAX_CONCURRENT_SESSIONS.
C4_SessionCapConcurrent ==
    \A u \in Users : CountActive(sessions, u) <= MAX_CONCURRENT_SESSIONS

\* a step of a create_session call for account u: it appended a row of u
CreatedFor(u) ==
    /\ Len(sessions') = Len(sessions) + 1
    /\ sessions'[Len(sessions')].user_id = u

\* the rows whose is_active flag the step turned off
Evicted == {i \in DOMAIN sessions : sessions[i].is_active /\ ~sessions'[i].is_active}

\* C12: a create_session call for an account that has MAX_CONCURRENT_SESSIONS
\* active sessions deactivates exactly one session, an active session of that
\* account that no other active session of the account precedes in
\* created_at, and the call is not rejected: it can always be made, and it
\* ends with a new active session of the account.
C12_Step ==
    \A u \in Users :
        (CountActive(sessions, u) = MAX_CONCURRENT_SESSIONS /\ CreatedFor(u)) =>
            /\ Cardinality(Evicted) = 1
            /\ \A i \in Evicted :
                  /\ i \in ActiveSessions(sessions, u)
                  /\ \A j \in ActiveSessions(sessions, u) :
                        sessions[i].created_at <= sessions[j].created_at
            /\ sessions'[Len(sessions')].is_active
            /\ CountActive(sessions', u) = MAX_CONCURRENT_SESSIONS

C12_NeverRejected ==
    \A u \in Users :
        (CountActive(sessions, u) = MAX_CONCURRENT_SESSIONS /\ Len(sessions) < MaxRows)
            => \A dev \in Devices, ip \in Addresses : ENABLED CreateSession(u, dev, ip)

C12_EvictsExactlyOldest == [][C12_Step]_vars /\ []C12_NeverRejected

\* An account at the cap whose newest row is active and whose only inactive
\* row is older than another of its rows: an eviction chose between
\* sessions of different age.
C12_Witness ==
    \E u \in Users :
        /\ CountActive(sessions, u) = MAX_CONCURRENT_SESSIONS
        /\ sessions[Len(sessions)].user_id = u
        /\ sessions[Len(sessions)].is_active
        /\ \E i \in DOMAIN sessions :
              /\ sessions[i].user_id = u /\ ~sessions[i].is_active
              /\ \E j \in ActiveSessions(sessions, u) \ {Len(sessions)} :
                    sessions[i].created_at < sessions[j].created_at

\* the columns of a session row other than is_active
SameButActive(r, q) == [r EXCEPT !.is_active = q.is_active] = q

\* C13: a create_session call for account A leaves every session of every
\* other account as it was, and of A's existing sessions changes at most the
\* is_active flag of one: device id, device info, address, created_at and
\* expires_at of existing rows are never modified.
C13_Step ==
    \A u \in Users :
        CreatedFor(u) =>
            /\ \A i \in DOMAIN sessions :
                  /\ SameButActive(sessions[i], sessions'[i])
                  /\ sessions[i].user_id # u => sessions'[i] = sessions[i]
            /\ Cardinality({i \in DOMAIN sessions : sessions'[i] # sessions[i]}) <= 1

C13_Frame == [][C13_Step]_vars

\* An eviction for one account while the other account has an active session.
C13_Witness ==
    \E u \in Users, v \in Users :
        /\ u # v
        /\ CountActive(sessions, u) = MAX_CONCURRENT_SESSIONS
        /\ \E i \in DOMAIN sessions : sessions[i].user_id = u /\ ~sessions[i].is_active
        /\ \E k \in ActiveSessions(sessions, v) : k < Len(sessions)
        /\ sessions[Len(sessions)].user_id = u

\* the sessions of u that are marked active and not past their expires_at
Unexpired(u) == {i \in ActiveSessions(sessions, u) : sessions[i].expires_at >= now}

\* C24: a session past its expires_at no longer counts as active: a
\* create_session call does not count it toward MAX_CONCURRENT_SESSIONS, so
\* it evicts only when the account has that many unexpired active sessions,
\* and it never evicts an unexpired session while an expired one of the
\* account is still marked active.
C24_Step ==
    \A u \in Users :
        (CreatedFor(u) /\ Evicted # {}) =>
            /\ Cardinality(Unexpired(u)) >= MAX_CONCURRENT_SESSIONS
            /\ \A i \in Evicted :
                  i \in Unexpired(u) => ActiveSessions(sessions, u) \subseteq Unexpired(u)

C24_ExpiredNotCounted == [][C24_Step]_vars

-----------------------------------------------------------------------------
(* Lockout State Machine: check_account_lockout, handle_failed_login       *)
(* The clock of this subsystem counts minutes.                             *)

\* the comparison that decides whether the lockout period is over
LockoutExpired(t, until) == t > until

\* check_account_lockout(user) at time t: the row it leaves and what it returns
CheckAccountLockout(u, t) ==
    IF ~u.is_locked
    THEN [user |-> u, locked |-> FALSE]
    ELSE IF u.lockout_until # None /\ LockoutExpired(t, u.lockout_until)
         THEN [user   |-> [u EXCEPT !.is_locked = FALSE,
                                    !.failed_login_attempts = 0,
                                    !.lockout_until = None],
               locked |-> FALSE]
         ELSE [user |-> u, locked |-> TRUE]

\* the window test with <= for <
WindowedAttemptsAtEdge(u, t) ==
    IF /\ u.last_failed_login # None
       /\ u.last_failed_login <= t - ACCOUNT_LOCKOUT_WINDOW_MINUTES
    THEN 0
    ELSE u.failed_login_attempts

\* "Reset failed attempts if window expired": the counter the increment starts from
WindowedAttempts(u, t) ==
    IF /\ u.last_failed_login # None
       /\ u.last_failed_login < t - ACCOUNT_LOCKOUT_WINDOW_MINUTES
    THEN 0
    ELSE u.failed_login_attempts

\* the threshold test with > for >=
ShouldLockAbove(n) == n > ACCOUNT_LOCKOUT_THRESHOLD

\* "Check if should lock account"
ShouldLock(n) == n >= ACCOUNT_LOCKOUT_THRESHOLD

\* the update that counts and never locks
HandleFailedLoginCountOnly(u, t) ==
    [u EXCEPT !.failed_login_attempts = WindowedAttempts(u, t) + 1,
              !.last_failed_login = t]

\* the update that sets the flag and leaves lockout_until as it was
HandleFailedLoginFlagOnly(u, t) ==
    LET n == WindowedAttempts(u, t) + 1
        counted == [u EXCEPT !.failed_login_attempts = n,
                             !.last_failed_login = t]
    IN  IF ShouldLock(n) THEN [counted EXCEPT !.is_locked = TRUE] ELSE counted

\* handle_failed_login(db, user) at time t: the row it commits
HandleFailedLogin(u, t) ==
    LET n == WindowedAttempts(u, t) + 1
        counted == [u EXCEPT !.failed_login_attempts = n,
                             !.last_failed_login = t]
    IN  IF ShouldLock(n)
        THEN [counted EXCEPT !.is_locked = TRUE,
                             !.lockout_until = t + ACCOUNT_LOCKOUT_DURATION_MINUTES]
        ELSE counted

\* a successful attempt that leaves the row as it is
OnSuccessfulLoginKeeping(u) == u

\* Gateway, successful attempt: reset counter to 0, clear last-failure timestamp
OnSuccessfulLogin(u) ==
    [u EXCEPT !.failed_login_attempts = 0, !.last_failed_login = None]

\* a failure at time t, the one before it at time last: still inside the window
InsideWindow(last, t) ==
    last # None /\ t - last <= ACCOUNT_LOCKOUT_WINDOW_MINUTES

\* Gateway, one login attempt run to completion: lockout check, credential
\* verification, lockout update.
LoginAttempt(correct) ==
    LET chk == CheckAccountLockout(acct, now)
        outcome == IF chk.locked THEN "AccountLocked"
                   ELSE IF correct THEN "Success" ELSE "InvalidCredentials"
    IN  /\ acct' = IF chk.locked THEN chk.user
                   ELSE IF correct THEN OnSuccessfulLogin(chk.user)
                   ELSE HandleFailedLogin(chk.user, now)
        /\ attempt' = [at |-> now, correct |-> correct, before |-> acct,
                       locked |-> chk.locked, afterCheck |-> chk.user,
                       outcome |-> outcome]
        /\ streak' = IF chk.locked THEN streak
                     ELSE IF correct
                          THEN [n |-> 0, at |-> None, cut |-> streak.n, cutAt |-> streak.at]
                     ELSE [n     |-> IF ~acct.is_locked /\ InsideWindow(streak.at, now)
                                     THEN streak.n + 1 ELSE 1,
                           at    |-> now,
                           cut   |-> IF InsideWindow(streak.cutAt, now)
                                     THEN streak.cut ELSE 0,
                           cutAt |-> None]
        /\ UNCHANGED <<now, notLock, logins, verifs>>

\* a minute passes
TickMinute ==
    /\ now < MaxMinutes
    /\ now' = now + 1
    /\ UNCHANGED <<notLock, lockVars>>

InitLockout ==
    /\ now = 0
    /\ SessionsIdle
    /\ LockoutIdle
    /\ TokenIdle
    /\ PasswordIdle
    /\ WebIdle

NextLockout ==
    \/ \E correct \in BOOLEAN : LoginAttempt(correct)
    \/ TickMinute

SpecLockout == InitLockout /\ [][NextLockout]_vars

-----------------------------------------------------------------------------
(* The two functions of the lockout machine called directly, in any order  *)

\* check_account_lockout(user), the caller committing what it changed
CallCheckAccountLockout ==
    LET chk == CheckAccountLockout(acct, now)
    IN  /\ acct' = chk.user
        /\ attempt' = [at |-> now, correct |-> FALSE, before |-> acct,
                       locked |-> chk.locked, afterCheck |-> chk.user,
                       outcome |-> "checked"]
        /\ UNCHANGED <<now, notLock, streak, logins, verifs>>

\* handle_failed_login(db, user)
CallHandleFailedLogin ==
    /\ acct.failed_login_attempts < MaxAttempts
    /\ acct' = HandleFailedLogin(acct, now)
    /\ attempt' = [at |-> now, correct |-> FALSE, before |-> acct,
                   locked |-> FALSE, afterCheck |-> acct, outcome |-> "failed"]
    /\ UNCHANGED <<now, notLock, streak, logins, verifs>>

NextLockoutApi ==
    \/ CallCheckAccountLockout
    \/ CallHandleFailedLogin
    \/ TickMinute

SpecLockoutApi == InitLockout /\ [][NextLockoutApi]_vars

-----------------------------------------------------------------------------
(* Login attempts of concurrent requests against the same account. Each   *)
(* request loads its own copy of the row, works on the copy, and its       *)
(* commit writes back the columns it changed.                              *)

\* db.commit(): the UPDATE sets the columns whose value differs from the loaded one
Commit(stored, loaded, row) ==
    [f \in DOMAIN stored |-> IF row[f] # loaded[f] THEN row[f] ELSE stored[f]]

\* Gateway: load the row, check_account_lockout on it, verify the password
LoginBegin(p, correct) ==
    LET chk == CheckAccountLockout(acct, now)
    IN  /\ logins[p].pc = "idle"
        /\ verifs < MaxVerifs
        /\ IF chk.locked
           THEN UNCHANGED <<logins, verifs>>
           ELSE /\ logins' = [logins EXCEPT ![p] = [pc |-> "verified", correct |-> correct,
                                                   loaded |-> acct, row |-> chk.user]]
                /\ verifs' = IF correct THEN verifs ELSE verifs + 1
        /\ attempt' = [at |-> now, correct |-> correct, before |-> acct,
                       locked |-> chk.locked, afterCheck |-> chk.user,
                       outcome |-> IF chk.locked THEN "AccountLocked" ELSE "none"]
        /\ UNCHANGED <<now, notLock, acct, streak>>

\* Gateway: record the outcome; handle_failed_login and its commit on a failure
LoginFinish(p) ==
    LET l == logins[p]
        row == IF l.correct THEN OnSuccessfulLogin(l.row)
               ELSE HandleFailedLogin(l.row, now)
    IN  /\ l.pc = "verified"
        /\ acct' = Commit(acct, l.loaded, row)
        /\ logins' = [logins EXCEPT ![p] = IdleLogin]
        /\ verifs' = IF l.correct THEN 0 ELSE verifs
        /\ attempt' = [at |-> now, correct |-> l.correct, before |-> l.loaded,
                       locked |-> FALSE, afterCheck |-> l.row,
                       outcome |-> IF l.correct THEN "Success" ELSE "InvalidCredentials"]
        \* history: the handle_failed_login executions completed on the
        \* account, counted until the first successful login (cut = 1)
        /\ streak' = IF l.correct THEN [streak EXCEPT !.cut = 1]
                     ELSE IF streak.cut = 0 THEN [streak EXCEPT !.n = streak.n + 1]
                     ELSE streak
        /\ UNCHANGED <<now, notLock>>

NextLockoutConc ==
    \/ \E p \in Procs, correct \in BOOLEAN : LoginBegin(p, correct)
    \/ \E p \in Procs : LoginFinish(p)

SpecLockoutConc == InitLockout /\ [][NextLockoutConc]_vars

-----------------------------------------------------------------------------
(* Claims about the Lockout State Machine                                  *)

\* C2: after exactly ACCOUNT_LOCKOUT_THRESHOLD failed logins in a row, each
\* inside the lockout window of the one before, the account is locked with
\* lockout_until = time of the last failure + ACCOUNT_LOCKOUT_DURATION_MINUTES;
\* and a login attempt made on a locked account before lockout_until is
\* reported locked and rejected as AccountLocked, whatever the password.
C2_LockedAtThreshold ==
    /\ streak.n = ACCOUNT_LOCKOUT_THRESHOLD =>
          /\ acct.is_locked
          /\ acct.lockout_until = streak.at + ACCOUNT_LOCKOUT_DURATION_MINUTES
    /\ ( /\ attempt.at # None
         /\ attempt.before.is_locked
         /\ attempt.before.lockout_until # None
         /\ attempt.at < attempt.before.lockout_until )
       => attempt.locked /\ attempt.outcome = "AccountLocked"

\* The threshold was reached and a correct password was then turned away.
C2_Witness ==
    /\ streak.n = ACCOUNT_LOCKOUT_THRESHOLD
    /\ attempt.correct
    /\ attempt.at < acct.lockout_until
    /\ attempt.outcome = "AccountLocked"

\* C3: however the steps of concurrent login attempts on one account
\* interleave, no more than ACCOUNT_LOCKOUT_THRESHOLD wrong passwords are
\* verified before the account is unlocked or reset.
C3_NoRacePastThreshold == verifs <= ACCOUNT_LOCKOUT_THRESHOLD

\* C10: a check of a locked account at any time now >= lockout_until, the
\* instant lockout_until included, reports not locked and leaves the account
\* OPEN: flag cleared, counter 0, lockout_until cleared.
C10_UnlocksAtLockoutUntil ==
    ( /\ attempt.at # None
      /\ attempt.outcome = "checked"
      /\ attempt.before.is_locked
      /\ attempt.before.lockout_until # None
      /\ attempt.at >= attempt.before.lockout_until )
    => /\ ~attempt.locked
       /\ ~attempt.afterCheck.is_locked
       /\ attempt.afterCheck.failed_login_attempts = 0
       /\ attempt.afterCheck.lockout_until = None

\* C11: when handle_failed_login runs and the previous failure is older than
\* now - ACCOUNT_LOCKOUT_WINDOW_MINUTES, the counter restarts and ends at 1,
\* whatever it was; when the previous failure is inside the window the
\* counter ends at its old value plus 1. In both cases the call stamps
\* last_failed_login = now.
C11_WindowReset ==
    ( /\ attempt.outcome = "failed"
      /\ attempt.before.last_failed_login # None )
    => /\ acct.last_failed_login = attempt.at
       /\ IF attempt.before.last_failed_login
                < attempt.at - ACCOUNT_LOCKOUT_WINDOW_MINUTES
          THEN acct.failed_login_attempts = 1
          ELSE acct.failed_login_attempts
                  = attempt.before.failed_login_attempts + 1

\* One failure short of the threshold, a gap longer than the window, and a
\* failure that leaves the counter at 1 and the account open.
C11_Witness ==
    /\ attempt.outcome = "failed"
    /\ attempt.before.failed_login_attempts = ACCOUNT_LOCKOUT_THRESHOLD - 1
    /\ ~attempt.before.is_locked
    /\ attempt.before.last_failed_login # None
    /\ attempt.at - attempt.before.last_failed_login > ACCOUNT_LOCKOUT_WINDOW_MINUTES
    /\ acct.failed_login_attempts = 1
    /\ ~acct.is_locked

\* C21: in every state that calls of check_account_lockout and
\* handle_failed_login reach, an account whose is_locked flag is set has
\* lockout_until set; the locked account without lockout_until, which the
\* check would report locked for ever, is not reached.
C21_LockedHasUntil ==
    /\ acct.is_locked => acct.lockout_until # None
    /\ (attempt.outcome = "checked" /\ attempt.locked) =>
          attempt.before.lockout_until # None

\* A locked account was checked before its lockout_until and reported locked.
C21_Witness ==
    /\ acct.is_locked
    /\ attempt.outcome = "checked"
    /\ attempt.locked
    /\ attempt.at < acct.lockout_until

\* C22: in every state that login attempts run one after the other reach
\* (the check first, handle_failed_login only when the check reported not
\* locked), an account that is not locked has its counter in
\* 0..ACCOUNT_LOCKOUT_THRESHOLD-1, and the counter never exceeds the threshold.
C22_CounterRange ==
    /\ acct.failed_login_attempts \in 0..ACCOUNT_LOCKOUT_THRESHOLD
    /\ ~acct.is_locked =>
          acct.failed_login_attempts \in 0..(ACCOUNT_LOCKOUT_THRESHOLD - 1)

\* A locked account with its counter at the threshold was found expired by
\* the check of a failed attempt, which left it open with the counter at 1.
C22_Witness ==
    /\ attempt.outcome = "InvalidCredentials"
    /\ attempt.before.is_locked
    /\ attempt.before.failed_login_attempts = ACCOUNT_LOCKOUT_THRESHOLD
    /\ ~acct.is_locked
    /\ acct.failed_login_attempts = 1

\* C23: no failed attempt is lost. When handle_failed_login executions for
\* one account overlap, inside the window and below the threshold, and all
\* have committed, the stored counter is the number of executions, as it
\* would be had they run one after the other.
C23_NoLostFailure ==
    ( /\ \A p \in Procs : logins[p].pc = "idle"
      /\ streak.cut = 0
      /\ streak.n < ACCOUNT_LOCKOUT_THRESHOLD )
    => acct.failed_login_attempts = streak.n

\* C14: a successful login attempt leaves the counter at 0 and
\* last_failed_login cleared, so failures on either side of it are not
\* counted together: after a failed attempt the counter is the number of
\* failures in a row since the last success, and the attempt locks the
\* account only when that number has reached the threshold.
C14_SuccessResets ==
    /\ attempt.outcome = "Success" =>
          /\ acct.failed_login_attempts = 0
          /\ acct.last_failed_login = None
    /\ attempt.outcome = "InvalidCredentials" =>
          /\ acct.failed_login_attempts = streak.n
          /\ acct.is_locked => streak.n >= ACCOUNT_LOCKOUT_THRESHOLD

\* Threshold - 1 failures, a success, and as the next attempt one more
\* failure inside the window of the last of them: the account is open with
\* its counter at 1.
C14_Witness ==
    /\ attempt.outcome = "InvalidCredentials"
    /\ streak.cut = ACCOUNT_LOCKOUT_THRESHOLD - 1
    /\ streak.n = 1
    /\ acct.failed_login_attempts = 1
    /\ ~acct.is_locked

-----------------------------------------------------------------------------
(* Token Service: create_access_token, verify_token                        *)
(* The clock of this subsystem counts seconds; a datetime is the number of *)
(* seconds since the epoch and a timedelta a number of seconds.            *)
(*                                                                         *)
(* pyseto is taken at its contract: encode seals a payload under the key,  *)
(* serialising instants as epoch numbers; decode returns the payload of a  *)
(* token sealed under the same key and raises for every other string.      *)
(* A token is [kind, payload]; kind "sealed" is a string that decrypts and *)
(* authenticates under PASETO_SECRET.                                      *)

\* the zones the process may run in, in seconds east of UTC: nothing in the
\* repository sets the zone, so it is the one of the machine (New York, UTC,
\* Tokyo here)
LocalUtcOffsets == {0 - 18000, 0, 32400}

\* datetime.fromtimestamp(ts): the naive local time of an epoch number
FromTimestamp(ts) == ts + tz

\* an update in which the keys already in the dict keep their values
UpdateKeeping(d, u) ==
    [k \in DOMAIN d \cup DOMAIN u |-> IF k \in DOMAIN d THEN d[k] ELSE u[k]]

\* dict.update
Update(d, u) ==
    [k \in DOMAIN d \cup DOMAIN u |-> IF k \in DOMAIN u THEN u[k] ELSE d[k]]

\* payload.get(k): the value, or None for a key the payload lacks
Absent == "<None>"
Get(d, k) == IF k \in DOMAIN d THEN d[k] ELSE Absent

\* "if expires_delta:" is false for None and for a zero timedelta
Truthy(delta) == delta # None /\ delta # 0

\* create_access_token(data, expires_delta): the clock is read twice, at t
\* for the expiry (line 74 or 76) and at t2 for iat (line 82)
CreateAccessToken(data, delta, t, t2) ==
    LET expire == IF Truthy(delta) THEN t + delta
                  ELSE t + ACCESS_TOKEN_EXPIRE_MINUTES * 60
    IN  [kind    |-> "sealed",
         payload |-> Update(data, [exp |-> expire,
                                   iss |-> PASETO_ISSUER,
                                   aud |-> PASETO_AUDIENCE,
                                   iat |-> t2])]

\* to_encode = data.copy(): the update falls on the copy, and the caller's
\* map is after the call what it was before
CallerMapAfter(data, delta) == data

\* "Verify expiration with leeway": the test that rejects
Expired(exp, t) == exp - PASETO_LEEWAY_SECONDS <= t

Raised == [outcome |-> "raised", payload |-> <<>>]
Invalid == [outcome |-> "None", payload |-> <<>>]

\* the body of the try block of verify_token at time t
VerifyBody(token, t) ==
    IF token.kind # "sealed"
    THEN Raised                              \* pyseto.decode raises
    ELSE LET payload == token.payload
         IN  IF "exp" \notin DOMAIN payload
             THEN Raised                     \* payload["exp"]: KeyError
             ELSE IF Expired(FromTimestamp(payload["exp"]), t) THEN Invalid
             ELSE IF Get(payload, "iss") # PASETO_ISSUER THEN Invalid
             ELSE IF Get(payload, "aud") # PASETO_AUDIENCE THEN Invalid
             ELSE [outcome |-> "claims", payload |-> payload]

\* verify_token(token) at time t: "except: return None"
VerifyToken(token, t) ==
    LET r == VerifyBody(token, t)
    IN  IF r.outcome = "raised" THEN Invalid ELSE r

\* Gateway, current-user resolution: the status a protected route answers
\* for the token's verification (the account lookup succeeding)
RouteStatus(r) == IF r.outcome = "claims" THEN 200 ELSE 401

\* claim maps callers pass
ClaimMaps ==
    { [sub |-> "u1"],
      [sub |-> "u1", role |-> "admin"],
      [sub |-> "u2", iss |-> "Evil", aud |-> "Evil-Web"],
      [sub |-> "u3", iss |-> "Evil", aud |-> "Evil-Web", iat |-> 7, exp |-> 7] }

\* lifetimes callers pass: none, or a number of seconds
Lifetimes == {None, 0, 1, 30, PASETO_LEEWAY_SECONDS, PASETO_LEEWAY_SECONDS + 1}

\* strings that do not decrypt under the key
BadStrings ==
    { [kind |-> k, payload |-> <<>>] :
        k \in {"malformed", "truncated", "tampered", "foreign-key"} }

\* strings sealed under the key by some other issuer of tokens
SealedElsewhere ==
    LET good == [sub |-> "u1", exp |-> MaxSeconds + PASETO_LEEWAY_SECONDS,
                 iss |-> PASETO_ISSUER, aud |-> PASETO_AUDIENCE, iat |-> 0]
        drop(d, k) == [j \in DOMAIN d \ {k} |-> d[j]]
    IN  { [kind |-> "sealed", payload |-> pl] :
            pl \in { good,
                     drop(good, "exp"), drop(good, "iss"), drop(good, "aud"),
                     [good EXCEPT !.iss = "Evil"],
                     [good EXCEPT !.aud = "Evil-Web"],
                     [good EXCEPT !.exp = 0],
                     [good EXCEPT !.exp = PASETO_LEEWAY_SECONDS + 1] } }

\* the seconds that may pass between the two clock reads of one call
ClockSteps == {0, 1}

\* a caller obtains a token from create_access_token; the clock may move on
\* between the two reads of the call
Issue(data, delta) ==
    \E d \in ClockSteps :
        /\ now <= MaxIssueAt
        /\ now + d <= MaxSeconds
        /\ now' = now + d
        /\ tok' = CreateAccessToken(data, delta, now, now + d)
        /\ issued' = [at |-> now, iat |-> now + d, data |-> data, ttl |-> delta,
                      after |-> CallerMapAfter(data, delta)]
        /\ result' = NotVerified
        /\ UNCHANGED <<tz, notTok>>

\* a caller turns up with a string of its own
Present(t) ==
    /\ tok' = t
    /\ issued' = NotIssued
    /\ result' = NotVerified
    /\ UNCHANGED <<now, tz, notTok>>

\* the caller presents its token on a protected route
Verify ==
    /\ tok # NoToken
    /\ LET r == VerifyToken(tok, now)
       IN  result' = [outcome |-> r.outcome, payload |-> r.payload,
                      status |-> RouteStatus(r)]
    /\ UNCHANGED <<now, tz, tok, issued, notTok>>

\* a second passes; the last answer is no longer of this instant
TickSecond ==
    /\ now < MaxSeconds
    /\ now' = now + 1
    /\ result' = NotVerified
    /\ UNCHANGED <<tz, tok, issued, notTok>>

InitToken ==
    /\ now = 0
    /\ SessionsIdle
    /\ LockoutIdle
    /\ tz \in LocalUtcOffsets
    /\ tok = NoToken
    /\ issued = NotIssued
    /\ result = NotVerified
    /\ PasswordIdle
    /\ WebIdle

NextToken ==
    \/ \E data \in ClaimMaps, delta \in Lifetimes : Issue(data, delta)
    \/ \E t \in BadStrings \cup SealedElsewhere : Present(t)
    \/ Verify
    \/ TickSecond

SpecToken == InitToken /\ [][NextToken]_vars

-----------------------------------------------------------------------------
(* Claims about the Token Service                                          *)

\* the keys create_access_token stamps
Stamped == {"exp", "iss", "aud", "iat"}

\* C5: round trip. For any claim map and any ttl, a ttl of at most
\* PASETO_LEEWAY_SECONDS included, verify_token of the token just returned
\* by create_access_token, at the instant of issuance, returns the caller's
\* claims with the injected iat and exp, never the invalid outcome. (The
\* instant of issuance is the one at which the call returned, issued.iat.)
C5_RoundTrip ==
    ( /\ issued.iat = now
      /\ Truthy(issued.ttl)
      /\ result.outcome # "none" )
    => /\ result.outcome = "claims"
       /\ \A k \in DOMAIN issued.data \ Stamped : Get(result.payload, k) = issued.data[k]
       /\ Get(result.payload, "iat") = issued.iat
       /\ Get(result.payload, "exp") = issued.at + issued.ttl

\* the conditions under which C6 has verify_token answer invalid
C6_Rejects(t, at) ==
    \/ t.kind # "sealed"
    \/ Get(t.payload, "iss") # PASETO_ISSUER
    \/ Get(t.payload, "aud") # PASETO_AUDIENCE
    \/ "exp" \notin DOMAIN t.payload
    \/ t.payload["exp"] - PASETO_LEEWAY_SECONDS <= at

\* C6: verify_token returns the invalid outcome whenever the token fails to
\* decrypt or authenticate, or its issuer is not PASETO_ISSUER, or its
\* audience is not PASETO_AUDIENCE, or exp - leeway <= now (no exp at all
\* counted with it); every other token is returned as its claims.
C6_VerifyDecision ==
    result.outcome # "none" =>
        IF C6_Rejects(tok, now)
        THEN result.outcome = "None"
        ELSE result.outcome = "claims" /\ result.payload = tok.payload

\* what makes a token bad for C7
C7_Bad(t, at) ==
    \/ t.kind # "sealed"
    \/ {"exp", "iss", "aud"} \ DOMAIN t.payload # {}
    \/ t.payload["exp"] - PASETO_LEEWAY_SECONDS <= at

\* C7: verify_token never raises. For every string, malformed, truncated,
\* tampered, lacking exp, iss or aud, or expired, it returns the one invalid
\* outcome None, the same whichever check failed, and a protected route
\* answers such a token 401.
C7_NeverRaises ==
    /\ result.outcome \in {"none", "None", "claims"}
    /\ result.outcome = "None" => result.payload = <<>> /\ result.status = 401
    /\ (result.outcome # "none" /\ C7_Bad(tok, now)) =>
          result.outcome = "None" /\ result.status = 401

\* C15: a token is never accepted late. Whenever verify_token returns
\* claims, the token decrypted and authenticated, its issuer and audience
\* matched, and now was before exp + leeway; and at every instant with
\* now > exp + leeway the answer is the invalid outcome.
C15_NeverAcceptedLate ==
    /\ result.outcome = "claims" =>
          /\ tok.kind = "sealed"
          /\ Get(tok.payload, "iss") = PASETO_ISSUER
          /\ Get(tok.payload, "aud") = PASETO_AUDIENCE
          /\ "exp" \in DOMAIN tok.payload
          /\ now < tok.payload["exp"] + PASETO_LEEWAY_SECONDS
    /\ ( /\ result.outcome # "none"
         /\ tok.kind = "sealed"
         /\ "exp" \in DOMAIN tok.payload
         /\ now > tok.payload["exp"] + PASETO_LEEWAY_SECONDS )
       => result.outcome = "None"

\* C16: create_access_token stamps iat = now, and exp = now + ttl for every
\* ttl the caller supplies, a zero-length ttl included; it uses
\* exp = now + ACCESS_TOKEN_EXPIRE_MINUTES only when the caller supplies none.
\* (Each stamp is measured against the clock as the call read it for that
\* stamp: issued.at for the expiry, issued.iat for iat.)
C16_Stamping ==
    issued.at # None =>
        /\ tok.payload["iat"] = issued.iat
        /\ tok.payload["exp"] =
              IF issued.ttl = None
              THEN issued.at + ACCESS_TOKEN_EXPIRE_MINUTES * 60
              ELSE issued.at + issued.ttl

\* C25: every token create_access_token issues carries iss = PASETO_ISSUER,
\* aud = PASETO_AUDIENCE and the iat and exp the service computed, also when
\* the caller's claim map has keys iss, aud, iat or exp of its own; every
\* other claim of the caller is carried unchanged, nothing else is added,
\* and the caller's map is after the call what it was before.
C25_ServiceClaimsWin ==
    issued.at # None =>
        /\ tok.payload["iss"] = PASETO_ISSUER
        /\ tok.payload["aud"] = PASETO_AUDIENCE
        /\ tok.payload["iat"] = issued.iat
        /\ tok.payload["exp"] =
              IF Truthy(issued.ttl) THEN issued.at + issued.ttl
              ELSE issued.at + ACCESS_TOKEN_EXPIRE_MINUTES * 60
        /\ DOMAIN tok.payload = DOMAIN issued.data \cup Stamped
        /\ \A k \in DOMAIN issued.data \ Stamped : tok.payload[k] = issued.data[k]
        /\ issued.after = issued.data

\* A token issued for a claim map that brought its own iss, aud, iat and exp.
C25_Witness ==
    /\ issued.at # None
    /\ Stamped \subseteq DOMAIN issued.data
    /\ issued.data["iss"] # PASETO_ISSUER
    /\ issued.data["exp"] # tok.payload["exp"]
    /\ tok.payload["iss"] = PASETO_ISSUER

-----------------------------------------------------------------------------
(* Credential Hasher: get_password_hash, verify_password                   *)
(* A string is the sequence of its bytes (one-byte characters). bcrypt is  *)
(* taken at its contract: a salted digest, free of collisions, of the      *)
(* first BcryptMaxBytes bytes of its input, written as the 60 characters   *)
(* "$2b$", two digits of cost, "$", 22 of salt and 31 of digest. The       *)
(* digest of the model is a keyed fold of those bytes, free of collisions  *)
(* on the passwords of the model. Releases of the library differ on longer *)
(* inputs: some drop the excess silently, the others raise ValueError;     *)
(* cred.truncates says which the build has.                                *)

Min(a, b) == IF a <= b THEN a ELSE b

\* settings.AUTH_PASSWORD_PEPPER
Pepper == [i \in 1..PepperLength |-> "k"]

\* f"{password}{settings.AUTH_PASSWORD_PEPPER}".encode()
Peppered(password) == password \o Pepper

\* the bytes bcrypt derives the digest from
BcryptKey(bytes) == SubSeq(bytes, 1, Min(Len(bytes), BcryptMaxBytes))

\* the alphabet of bcrypt's base 64
BcryptAlphabet ==
    << ".", "/",
       "A", "B", "C", "D", "E", "F", "G", "H", "I", "J", "K", "L", "M",
       "N", "O", "P", "Q", "R", "S", "T", "U", "V", "W", "X", "Y", "Z",
       "a", "b", "c", "d", "e", "f", "g", "h", "i", "j", "k", "l", "m",
       "n", "o", "p", "q", "r", "s", "t", "u", "v", "w", "x", "y", "z",
       "0", "1", "2", "3", "4", "5", "6", "7", "8", "9" >>

SaltChars == 22     \* characters of the salt in a hash string
DigestChars == 31   \* characters of the digest in a hash string

\* the byte of a character of a password or of the pepper
ByteOf(c) == CASE c = "a" -> 97 [] c = "b" -> 98 [] c = "k" -> 107

\* the byte at position j of a key, 0 past its end
ByteAt(key, j) == IF j <= Len(key) THEN ByteOf(key[j]) ELSE 0

\* the 22 characters of salt number s
EncodeSalt(s) == [i \in 1..SaltChars |-> BcryptAlphabet[((s * 29 + i) % 64) + 1]]

\* the 31 characters of the digest of a key under a salt: character i mixes
\* the bytes at positions i, i + 31 and i + 62 with the length and the salt
Digest(key, salt) ==
    [i \in 1..DigestChars |->
        BcryptAlphabet[((ByteAt(key, i) * 7
                         + ByteAt(key, i + DigestChars) * 11
                         + ByteAt(key, i + 2 * DigestChars) * 13
                         + Len(key) * 3 + salt * 17 + i) % 64) + 1]]

\* bcrypt.hashpw(bytes, salt): the parts of the hash string, or "raised"
HashPw(bytes, salt, truncates) ==
    IF Len(bytes) > BcryptMaxBytes /\ ~truncates
    THEN [outcome |-> "raised", rounds |-> 0, salt |-> 0, digest |-> <<>>]
    ELSE [outcome |-> "hash", rounds |-> BCRYPT_WORK_FACTOR, salt |-> salt,
          digest |-> Digest(BcryptKey(bytes), salt)]

\* bcrypt.checkpw(bytes, hashed): "true", "false", or "raised"
CheckPw(bytes, hashed, truncates) ==
    LET again == HashPw(bytes, hashed.salt, truncates)
    IN  IF again.outcome = "raised" THEN "raised"
        ELSE IF again.digest = hashed.digest THEN "true" ELSE "false"

\* get_password_hash(password), the salt being the one gensalt drew
GetPasswordHash(password, salt, truncates) ==
    HashPw(Peppered(password), salt, truncates)

\* verify_password(plain_password, hashed_password)
VerifyPassword(plain, hashed, truncates) ==
    CheckPw(Peppered(plain), hashed, truncates)

\* the two decimal digits of the cost
TwoDigits(n) ==
    LET d == <<"0", "1", "2", "3", "4", "5", "6", "7", "8", "9">>
    IN  <<d[(n \div 10) + 1], d[(n % 10) + 1]>>

\* the hash string as the caller sees it: "$2b$", cost, "$", salt and digest
HashString(h) ==
    <<"$", "2", "b", "$">> \o TwoDigits(h.rounds) \o <<"$">>
        \o EncodeSalt(h.salt) \o h.digest

\* passwords: n - 1 letters a, then the letter c
Pw(n, c) == [i \in 1..n |-> IF i = n THEN c ELSE "a"]
HasherLengths ==
    {1, 15, BcryptMaxBytes - PepperLength, BcryptMaxBytes - PepperLength + 1,
     BcryptMaxBytes, BcryptMaxBytes + 1}
HasherPasswords == {Pw(n, c) : n \in HasherLengths, c \in {"a", "b"}}

\* registration or password change: the password is hashed and stored
HashPassword(password, salt) ==
    /\ cred.step = "start"
    /\ cred' = [step |-> "hashed", truncates |-> cred.truncates, p |-> password,
                hash |-> GetPasswordHash(password, salt, cred.truncates)]
    /\ UNCHANGED <<now, policy, notPw>>

\* login: a candidate is verified against the stored hash
CheckPassword(candidate) ==
    /\ cred.step = "hashed"
    /\ cred.hash.outcome = "hash"
    /\ cred' = [step |-> "verified", truncates |-> cred.truncates, p |-> cred.p,
                hash |-> cred.hash, q |-> candidate,
                verdict |-> VerifyPassword(candidate, cred.hash, cred.truncates)]
    /\ UNCHANGED <<now, policy, notPw>>

\* the next candidate is tried against the same hash
NextCandidate ==
    /\ cred.step = "verified"
    /\ cred' = [step |-> "hashed", truncates |-> cred.truncates, p |-> cred.p,
                hash |-> cred.hash]
    /\ UNCHANGED <<now, policy, notPw>>

InitHasher ==
    /\ now = 0
    /\ SessionsIdle
    /\ LockoutIdle
    /\ TokenIdle
    /\ cred \in {[step |-> "start", truncates |-> b] : b \in BOOLEAN}
    /\ policy = [step |-> "start"]
    /\ WebIdle

NextHasher ==
    \/ \E password \in HasherPasswords, salt \in 1..NumSalts : HashPassword(password, salt)
    \/ \E candidate \in HasherPasswords : CheckPassword(candidate)
    \/ NextCandidate

SpecHasher == InitHasher /\ [][NextHasher]_vars

\* C8: for every password p that get_password_hash accepts,
\* verify_password(p, get_password_hash(p)) is true and, for every q # p,
\* verify_password(q, get_password_hash(p)) is false, long passwords that
\* differ only after their first 72 bytes included; the hash string is
\* never the password.
C8_HashVerify ==
    cred.step = "verified" =>
        /\ cred.q = cred.p => cred.verdict = "true"
        /\ cred.q # cred.p => cred.verdict = "false"
        /\ HashString(cred.hash) # cred.p

-----------------------------------------------------------------------------
(* Password Policy Engine: validate_password_strength, is_password_breached *)
(* A password is the sequence of its characters.                           *)

Uppercase == {"A", "B", "Z"}
Lowercase == {"a", "b", "z"}
Digit == {"0", "1", "9"}

\* re.search(pattern, password) for the four patterns of checks
Search(pattern, password) ==
    \E i \in DOMAIN password :
        CASE pattern = "[A-Z]" -> password[i] \in Uppercase
          [] pattern = "[a-z]" -> password[i] \in Lowercase
          [] pattern = "[0-9]" -> password[i] \in Digit
          [] pattern = "[^A-Za-z0-9]" ->
                password[i] \notin Uppercase \cup Lowercase \cup Digit

\* checks, in their order
Checks ==
    << [pattern |-> "[A-Z]", desc |-> "uppercase letter"],
       [pattern |-> "[a-z]", desc |-> "lowercase letter"],
       [pattern |-> "[0-9]", desc |-> "number"],
       [pattern |-> "[^A-Za-z0-9]", desc |-> "special character"] >>

\* missing = [desc for pattern, desc in checks if not re.search(pattern, password)]
RECURSIVE MissingFrom(_, _)
MissingFrom(i, password) ==
    IF i > Len(Checks) THEN <<>>
    ELSE (IF Search(Checks[i].pattern, password) THEN <<>> ELSE <<Checks[i].desc>>)
         \o MissingFrom(i + 1, password)

\* the list cut after its first entry: failing on the first missing class
MissingFirst(password) ==
    LET m == MissingFrom(1, password)
    IN  IF m = <<>> THEN <<>> ELSE <<m[1]>>

Missing(password) == MissingFrom(1, password)

\* the length test one character too lenient
TooShortByTwo(password) == Len(password) < MIN_PASSWORD_LENGTH - 1

\* len(password) < settings.MIN_PASSWORD_LENGTH
TooShort(password) == Len(password) < MIN_PASSWORD_LENGTH

\* hashlib.sha1(password.encode()).hexdigest().upper(), free of collisions:
\* its first 5 characters and the rest
Sha1(password) == [prefix |-> <<"prefix", password>>, suffix |-> <<"suffix", password>>]

\* The breach service as one call finds it:
\*   key     HIBP_API_KEY is set
\*   net     "ok": the request is answered; "refused", "timeout": requests.get
\*           raises ConnectionError / Timeout; "silent": no answer ever comes
\*           (the call passes no timeout)
\*   status  the status code of the answer
\*   body    the suffixes the answer lists
\* is_password_breached(password): what it returns or how it ends, and the
\* requests it made
IsPasswordBreached(password, env) ==
    IF ~env.key THEN [outcome |-> "returned", value |-> FALSE, requests |-> 0]
    ELSE IF env.net = "silent" THEN [outcome |-> "blocked", value |-> FALSE, requests |-> 1]
    ELSE IF env.net # "ok" THEN [outcome |-> "raised", value |-> FALSE, requests |-> 1]
    ELSE IF env.status # 200 THEN [outcome |-> "returned", value |-> FALSE, requests |-> 1]
    ELSE [outcome |-> "returned", value |-> Sha1(password).suffix \in env.body,
          requests |-> 1]

Answer(accepted, kind, missing, b) ==
    [outcome |-> "returned", accepted |-> accepted, reason |-> kind,
     missing |-> missing, requests |-> b]

\* the validation with the breach lookup made first
ValidateLookupFirst(password, env) ==
    LET b == IsPasswordBreached(password, env)
    IN  IF b.outcome # "returned"
        THEN [outcome |-> b.outcome, accepted |-> FALSE, reason |-> "none",
              missing |-> <<>>, requests |-> b.requests]
        ELSE IF TooShort(password) THEN Answer(FALSE, "too short", <<>>, b.requests)
        ELSE IF Missing(password) # <<>>
        THEN Answer(FALSE, "missing", Missing(password), b.requests)
        ELSE IF b.value THEN Answer(FALSE, "breached", <<>>, b.requests)
        ELSE Answer(TRUE, "ok", <<>>, b.requests)

\* validate_password_strength(password)
ValidatePasswordStrength(password, env) ==
    IF TooShort(password)
    THEN Answer(FALSE, "too short", <<>>, 0)
    ELSE IF Missing(password) # <<>>
    THEN Answer(FALSE, "missing", Missing(password), 0)
    ELSE LET b == IsPasswordBreached(password, env)
         IN  IF b.outcome # "returned"
             THEN [outcome |-> b.outcome, accepted |-> FALSE, reason |-> "none",
                   missing |-> <<>>, requests |-> b.requests]
             ELSE IF b.value THEN Answer(FALSE, "breached", <<>>, b.requests)
             ELSE Answer(TRUE, "ok", <<>>, b.requests)

\* passwords: a run of one character, then up to MaxTail characters
PolicyChars == {"A", "a", "1", "!"}
Run(n, c) == [i \in 1..n |-> c]
RECURSIVE Tails(_)
Tails(n) ==
    IF n = 0 THEN {<<>>}
    ELSE LET shorter == Tails(n - 1)
         IN  shorter \cup {Append(t, c) : t \in shorter, c \in PolicyChars}
PolicyPasswords ==
    {Run(n, c) \o t :
        n \in {0, MIN_PASSWORD_LENGTH - MaxTail - 1, MIN_PASSWORD_LENGTH - MaxTail,
                MIN_PASSWORD_LENGTH - 1},
        c \in PolicyChars, t \in Tails(MaxTail)}

\* what the breach service can be like for a call about password
BreachEnvs(password) ==
    {[key |-> FALSE, net |-> "ok", status |-> 200, body |-> {}]}
    \cup {[key |-> TRUE, net |-> n, status |-> 200, body |-> {}] :
            n \in {"refused", "timeout", "silent"}}
    \cup {[key |-> TRUE, net |-> "ok", status |-> st, body |-> {}] :
            st \in {401, 429, 503}}
    \cup {[key |-> TRUE, net |-> "ok", status |-> 200, body |-> b] :
            b \in {{}, {Sha1(password).suffix}, {Sha1(<<"other">>).suffix}}}

\* registration or password change: the new password is validated
Validate(password, env) ==
    /\ policy.step = "start"
    /\ policy' = [step |-> "validated", password |-> password, env |-> env,
                  answer |-> ValidatePasswordStrength(password, env)]
    /\ UNCHANGED <<now, cred, notPw>>

InitPolicy ==
    /\ now = 0
    /\ SessionsIdle
    /\ LockoutIdle
    /\ TokenIdle
    /\ PasswordIdle
    /\ WebIdle

NextPolicy ==
    /\ policy.step = "start"
    /\ \E password \in PolicyPasswords :
          \E env \in BreachEnvs(password) : Validate(password, env)

SpecPolicy == InitPolicy /\ [][NextPolicy]_vars

\* the structural checks pass
StructurallyValid(password) ==
    /\ Len(password) >= MIN_PASSWORD_LENGTH
    /\ \E i \in DOMAIN password : password[i] \in Uppercase
    /\ \E i \in DOMAIN password : password[i] \in Lowercase
    /\ \E i \in DOMAIN password : password[i] \in Digit
    /\ \E i \in DOMAIN password : password[i] \notin Uppercase \cup Lowercase \cup Digit

\* C9: when the breach service is unconfigured, answers with a status other
\* than 200, or is unreachable (the request fails with a connection error or
\* a timeout), validate_password_strength skips the breach step and accepts
\* a structurally valid password; it never raises.
C9_BreachCheckSkipped ==
    ( /\ policy.step = "validated"
      /\ StructurallyValid(policy.password)
      /\ \/ ~policy.env.key
         \/ policy.env.net \in {"refused", "timeout"}
         \/ policy.env.net = "ok" /\ policy.env.status # 200 )
    => policy.answer.outcome = "returned" /\ policy.answer.accepted

\* the classes of the policy, each with the name the reason gives it
ClassPresent(desc, password) ==
    \E i \in DOMAIN password :
        CASE desc = "uppercase letter" -> password[i] \in Uppercase
          [] desc = "lowercase letter" -> password[i] \in Lowercase
          [] desc = "number" -> password[i] \in Digit
          [] desc = "special character" ->
                password[i] \notin Uppercase \cup Lowercase \cup Digit

ClassNames == {"uppercase letter", "lowercase letter", "number", "special character"}

Named(seq) == {seq[i] : i \in DOMAIN seq}

\* C17: every password shorter than MIN_PASSWORD_LENGTH is rejected with the
\* length reason, whatever classes it has or lacks, and no request is made
\* to the breach service.
C17_ShortRejected ==
    ( /\ policy.step = "validated"
      /\ Len(policy.password) < MIN_PASSWORD_LENGTH )
    => /\ policy.answer.outcome = "returned"
       /\ ~policy.answer.accepted
       /\ policy.answer.reason = "too short"
       /\ policy.answer.missing = <<>>
       /\ policy.answer.requests = 0

\* A password one character short that has all four classes, validated
\* with the breach service configured: turned away for its length.
C17_Witness ==
    /\ policy.step = "validated"
    /\ Len(policy.password) = MIN_PASSWORD_LENGTH - 1
    /\ \A d \in ClassNames : ClassPresent(d, policy.password)
    /\ policy.env.key
    /\ policy.answer.reason = "too short"

\* C18: a password of at least the minimum length that lacks one or more of
\* the four classes is rejected, and the reason names every class that is
\* missing and none that is present; the structural checks accept a
\* password of that length exactly when no class is missing.
C18_AllMissingListed ==
    ( /\ policy.step = "validated"
      /\ Len(policy.password) >= MIN_PASSWORD_LENGTH )
    => LET absent == {d \in ClassNames : ~ClassPresent(d, policy.password)}
       IN  /\ absent # {} =>
                 /\ policy.answer.outcome = "returned"
                 /\ ~policy.answer.accepted
                 /\ policy.answer.reason = "missing"
                 /\ Named(policy.answer.missing) = absent
                 /\ Len(policy.answer.missing) = Cardinality(absent)
           /\ absent = {} <=> policy.answer.reason \notin {"too short", "missing"}

\* A long enough password with two or more classes missing, all of them named.
C18_Witness ==
    /\ policy.step = "validated"
    /\ Len(policy.password) >= MIN_PASSWORD_LENGTH
    /\ Cardinality({d \in ClassNames : ~ClassPresent(d, policy.password)}) >= 2
    /\ Len(policy.answer.missing) >= 2

\* C19: validate_password_strength always terminates. When the breach
\* service never answers, the call is cut off by a timeout and validation
\* returns with the breach step skipped: the password is accepted.
C19_Terminates ==
    /\ policy.step = "validated" => policy.answer.outcome # "blocked"
    /\ ( /\ policy.step = "validated"
         /\ StructurallyValid(policy.password)
         /\ policy.env.key
         /\ policy.env.net = "silent" )
       => policy.answer.outcome = "returned" /\ policy.answer.accepted

\* C20: the breach lookup comes after the length check and the four class
\* checks: a structurally invalid password causes no request, a validation
\* makes at most one request, and a structurally valid password whose
\* digest suffix is in the candidate set the service returns is rejected.
C20_LookupAfterStructure ==
    policy.step = "validated" =>
        /\ ~StructurallyValid(policy.password) => policy.answer.requests = 0
        /\ policy.answer.requests <= 1
        /\ ( /\ StructurallyValid(policy.password)
             /\ policy.env.key
             /\ policy.env.net = "ok"
             /\ policy.env.status = 200
             /\ Sha1(policy.password).suffix \in policy.env.body )
           => /\ policy.answer.outcome = "returned"
              /\ ~policy.answer.accepted
              /\ policy.answer.reason = "breached"
              /\ policy.answer.requests = 1

\* A structurally valid password found in the answer of the one lookup.
C20_Witness ==
    /\ policy.step = "validated"
    /\ StructurallyValid(policy.password)
    /\ Sha1(policy.password).suffix \in policy.env.body
    /\ policy.answer.requests = 1
    /\ policy.answer.reason = "breached"

-----------------------------------------------------------------------------
(* CSRFMiddleware.dispatch (src/app/core/security_middleware.py)           *)
(* A request is its method, its X-CSRF-Token header and its csrf_token     *)
(* cookie; a header or cookie the request lacks is Absent (.get gives      *)
(* None). The next handler answers with a status of its own. dispatch is   *)
(* a coroutine: it gives way to the other requests while it awaits         *)
(* call_next.                                                              *)

Methods == {"GET", "HEAD", "OPTIONS", "POST", "PUT", "PATCH", "DELETE"}

\* self.safe_methods
SafeMethods == {"GET", "HEAD", "OPTIONS"}

\* values of the header and of the cookie
CsrfTokens == {Absent, "", "tok-a", "tok-b"}

\* statuses the next handler answers with
HandlerStatuses == {200, 404}

\* the test with the comparison of the two tokens left out
CsrfRejectsUnlessPresent(header_token, cookie_token) ==
    \/ header_token \in {Absent, ""}
    \/ cookie_token \in {Absent, ""}

\* not header_token or not cookie_token or header_token != cookie_token
CsrfRejects(header_token, cookie_token) ==
    \/ header_token \in {Absent, ""}
    \/ cookie_token \in {Absent, ""}
    \/ header_token # cookie_token

\* lines 42-44 and 59-67: whether dispatch calls call_next for the request
CallsNext(request) ==
    \/ request.method \in SafeMethods
    \/ ~CsrfRejects(request.header, request.cookie)

\* lines 62-65: the response dispatch makes itself
Forbidden == [status |-> 403, set_cookie |-> FALSE]

\* lines 47-56 and 67: the response of the handler as dispatch returns it;
\* set_cookie says whether set_cookie("csrf_token", ...) was called on it
Respond(request, handler_status) ==
    [status     |-> handler_status,
     set_cookie |-> request.method \in SafeMethods /\ request.cookie = Absent]

\* a request arrives: dispatch runs up to its await of call_next, where it
\* leaves the event loop to the other requests, or to its own return of 403
DispatchCalled(p, request) ==
    /\ csrf[p].pc = "idle"
    /\ csrf' = [csrf EXCEPT ![p] =
                  IF CallsNext(request)
                  THEN [pc |-> "awaiting", request |-> request, invoked |-> TRUE,
                        handler |-> None, response |-> <<>>]
                  ELSE [pc |-> "done", request |-> request, invoked |-> FALSE,
                        handler |-> None, response |-> Forbidden]]
    /\ UNCHANGED <<notWeb, rbac, upload, modfile>>

\* call_next returns the handler's response: dispatch runs to its return
HandlerAnswers(p, handler_status) ==
    /\ csrf[p].pc = "awaiting"
    /\ csrf' = [csrf EXCEPT ![p].pc = "done",
                            ![p].handler = handler_status,
                            ![p].response = Respond(csrf[p].request, handler_status)]
    /\ UNCHANGED <<notWeb, rbac, upload, modfile>>

\* the handler raises, or the request is cancelled, while dispatch awaits
\* call_next: dispatch ends there, with no response of its own
HandlerFails(p) ==
    /\ csrf[p].pc = "awaiting"
    /\ csrf' = [csrf EXCEPT ![p].pc = "aborted"]
    /\ UNCHANGED <<notWeb, rbac, upload, modfile>>

InitCsrf ==
    /\ now = 0
    /\ SessionsIdle
    /\ LockoutIdle
    /\ TokenIdle
    /\ PasswordIdle
    /\ WebIdle

NextCsrf ==
    \/ \E p \in Procs, m \in Methods, h \in CsrfTokens, c \in CsrfTokens :
          DispatchCalled(p, [method |-> m, header |-> h, cookie |-> c])
    \/ \E p \in Procs, st \in HandlerStatuses : HandlerAnswers(p, st)
    \/ \E p \in Procs : HandlerFails(p)

SpecCsrf == InitCsrf /\ [][NextCsrf]_vars

\* C26: a request whose method is not GET, HEAD or OPTIONS reaches the next
\* handler only if its X-CSRF-Token header and its csrf_token cookie are
\* both present, non-empty and equal; otherwise the answer is 403 and the
\* handler is not invoked. A GET, HEAD or OPTIONS request is always passed
\* on, and the cookie is set on its response only when it carried none.
C26_CsrfGate ==
    \A p \in Procs :
        csrf[p].pc # "idle" =>
            LET q == csrf[p].request
                answered == csrf[p].pc = "done"
                matching == /\ q.header \notin {Absent, ""}
                            /\ q.cookie \notin {Absent, ""}
                            /\ q.header = q.cookie
            IN  IF q.method \in {"GET", "HEAD", "OPTIONS"}
                THEN /\ csrf[p].invoked
                     /\ answered =>
                           /\ csrf[p].response.status = csrf[p].handler
                           /\ csrf[p].response.set_cookie => q.cookie = Absent
                ELSE /\ csrf[p].invoked => matching
                     /\ ~matching =>
                           /\ answered
                           /\ csrf[p].response.status = 403
                           /\ ~csrf[p].invoked
                     /\ answered => ~csrf[p].response.set_cookie

\* A POST whose header and cookie are both there and differ, answered 403
\* without the handler, while a GET without cookie waits on its handler.
C26_Witness ==
    \E p \in Procs, o \in Procs :
        /\ csrf[p].pc = "done"
        /\ csrf[p].request.method = "POST"
        /\ csrf[p].request.header = "tok-a"
        /\ csrf[p].request.cookie = "tok-b"
        /\ csrf[p].response.status = 403
        /\ ~csrf[p].invoked
        /\ csrf[o].pc = "awaiting"
        /\ csrf[o].request.method = "GET"
        /\ csrf[o].request.cookie = Absent

-----------------------------------------------------------------------------
(* RBACPolicy.check_permission (src/app/core/authorization.py)             *)
(* Roles, resources and actions are the strings of the three enums.        *)

Resources == {"chat", "conversation", "message", "file", "user", "system"}
Actions == {"create", "read", "update", "delete", "moderate", "admin"}
\* what users.role can hold: the three roles and a string that is none of them
RoleNames == {"user", "moderator", "admin", "guest"}

\* the default policies with the moderator unable to read messages
PoliciesModeratorBlind ==
    [user |->
        [chat         |-> {"create", "read"},
         conversation |-> {"create", "read", "update", "delete"},
         message      |-> {"create", "read"},
         file         |-> {"create", "read", "delete"},
         user         |-> {"read"}],
     moderator |->
        [chat         |-> {"create", "read", "moderate"},
         conversation |-> {"create", "read", "update", "delete", "moderate"},
         message      |-> {"create", "delete", "moderate"},
         file         |-> {"create", "read", "delete", "moderate"},
         user         |-> {"read"}],
     admin |->
        [chat         |-> {"create", "read", "moderate", "admin"},
         conversation |-> {"create", "read", "update", "delete", "moderate", "admin"},
         message      |-> {"create", "read", "delete", "moderate", "admin"},
         file         |-> {"create", "read", "delete", "moderate", "admin"},
         user         |-> {"create", "read", "update", "delete", "admin"},
         system       |-> {"read", "update", "admin"}]]

\* RBACPolicy.DEFAULT_POLICIES
DEFAULT_POLICIES ==
    [user |->
        [chat         |-> {"create", "read"},
         conversation |-> {"create", "read", "update", "delete"},
         message      |-> {"create", "read"},
         file         |-> {"create", "read", "delete"},
         user         |-> {"read"}],
     moderator |->
        [chat         |-> {"create", "read", "moderate"},
         conversation |-> {"create", "read", "update", "delete", "moderate"},
         message      |-> {"create", "read", "delete", "moderate"},
         file         |-> {"create", "read", "delete", "moderate"},
         user         |-> {"read"}],
     admin |->
        [chat         |-> {"create", "read", "moderate", "admin"},
         conversation |-> {"create", "read", "update", "delete", "moderate", "admin"},
         message      |-> {"create", "read", "delete", "moderate", "admin"},
         file         |-> {"create", "read", "delete", "moderate", "admin"},
         user         |-> {"create", "read", "update", "delete", "admin"},
         system       |-> {"read", "update", "admin"}]]

\* self.policies.get(user.role, {}).get(resource, [])
AllowedActions(policies, role, resource) ==
    IF role \notin DOMAIN policies THEN {}
    ELSE IF resource \notin DOMAIN policies[role] THEN {}
    ELSE policies[role][resource]

\* the check without its resource ownership test
CheckPermissionIgnoringOwner(user, resource, action, resource_owner_id) ==
    IF user.role = "admin" /\ action = "admin" THEN TRUE
    ELSE action \in AllowedActions(DEFAULT_POLICIES, user.role, resource)

\* check_permission(user, resource, action, resource_owner_id)
CheckPermission(user, resource, action, resource_owner_id) ==
    IF user.role = "admin" /\ action = "admin" THEN TRUE
    ELSE IF action \notin AllowedActions(DEFAULT_POLICIES, user.role, resource) THEN FALSE
    ELSE IF /\ resource_owner_id # None
            /\ resource_owner_id # user.id
            /\ user.role = "user"
         THEN FALSE
    ELSE TRUE

\* the same request for permission, made by an account of each role
AskPermission(id, resource, action, resource_owner_id) ==
    /\ rbac' = [step |-> "checked", user_id |-> id, resource |-> resource,
                action |-> action, owner |-> resource_owner_id,
                granted |-> [r \in RoleNames |->
                                CheckPermission([id |-> id, role |-> r], resource,
                                                action, resource_owner_id)]]
    /\ UNCHANGED <<notWeb, csrf, upload, modfile>>

InitRbac ==
    /\ now = 0
    /\ SessionsIdle
    /\ LockoutIdle
    /\ TokenIdle
    /\ PasswordIdle
    /\ WebIdle

NextRbac ==
    /\ rbac.step = "start"
    /\ \E id \in Users, res \in Resources, act \in Actions, owner \in Users \cup {None} :
          AskPermission(id, res, act, owner)

SpecRbac == InitRbac /\ [][NextRbac]_vars

\* C27: check_permission returns False for a user of role user whenever
\* resource_owner_id is given and is not the user's id, for every resource
\* and action; and it returns False for every role, resource and action
\* where the action is not in the role's list for the resource, except
\* that role admin is always granted action ADMIN.
C27_DeniedUnlessListed ==
    rbac.step = "checked" =>
        /\ (rbac.owner # None /\ rbac.owner # rbac.user_id) => ~rbac.granted["user"]
        /\ \A r \in RoleNames :
              IF r = "admin" /\ rbac.action = "admin"
              THEN rbac.granted[r]
              ELSE rbac.action \notin AllowedActions(DEFAULT_POLICIES, r, rbac.resource)
                      => ~rbac.granted[r]

\* A read of some one else's conversation: listed for role user, and denied.
C27_Witness ==
    /\ rbac.step = "checked"
    /\ rbac.resource = "conversation"
    /\ rbac.action = "read"
    /\ rbac.owner # None
    /\ rbac.owner # rbac.user_id
    /\ ~rbac.granted["user"]
    /\ rbac.granted["moderator"]

\* C28: under the default policies privileges grow with the role: for
\* every resource, action and resource_owner_id, what check_permission
\* grants an account of role user it grants a moderator with the same
\* arguments, and what it grants a moderator it grants an admin.
C28_RolesMonotone ==
    rbac.step = "checked" =>
        /\ rbac.granted["user"] => rbac.granted["moderator"]
        /\ rbac.granted["moderator"] => rbac.granted["admin"]

\* A request on the user's own resource that all three roles are granted.
C28_Witness ==
    /\ rbac.step = "checked"
    /\ rbac.owner = rbac.user_id
    /\ rbac.granted["user"]
    /\ rbac.granted["moderator"]
    /\ rbac.granted["admin"]

-----------------------------------------------------------------------------
(* upload_file and scan_file (src/app/core/files.py)                       *)
(* The surroundings of one call:                                           *)
(*   ext       the extension of the file name                              *)
(*   write     "ok", or "raises": temp_file.write(file_content) raises     *)
(*             (no space left, content that is not bytes)                  *)
(*   scan      what clamd_client.scan does: the status it reports for the  *)
(*             path, "missing" (a result without the path), "none" (no     *)
(*             result), "raises" (clamd unreachable)                       *)
(*   expected  expected_type: Absent, or a MIME type as its segments       *)
(*   actual    what magic reports, as its segments, or <<"raises">>        *)
(*   store     what the object store does with put_object                  *)
(* The result tells what was returned, whether an object was stored and    *)
(* what became of the temporary file: "none" made, "removed" or "left".    *)

\* settings.ALLOWED_FILE_TYPES
ALLOWED_FILE_TYPES == {"txt", "pdf", "md", "png", "jpg", "csv", "json"}

\* str.startswith on MIME types, a type being the sequence of its segments
StartsWith(actual, expected) ==
    /\ Len(expected) <= Len(actual)
    /\ SubSeq(actual, 1, Len(expected)) = expected

\* scan_file(file_path): is_clean
ScanFile(scan) ==
    CASE scan = "OK" -> TRUE
      [] scan \in {"FOUND", "ERROR"} -> FALSE     \* file_status[0] != "OK"
      [] scan = "missing" -> FALSE                 \* the default ('ERROR', ...)
      [] OTHER -> FALSE                            \* except Exception

\* "if expected_type and ...": None and the empty string are skipped
TypeChecked(expected) == expected # Absent /\ expected # <<>>

Uploaded(ok, stored, temp) == [ok |-> ok, stored |-> stored, temp |-> temp]

\* upload_file(file_content, filename, user_id, expected_type)
UploadFile(env) ==
    IF env.ext \notin ALLOWED_FILE_TYPES
    THEN Uploaded(FALSE, FALSE, "none")            \* sanitize_filename raises
    ELSE IF env.write = "raises"
    THEN Uploaded(FALSE, FALSE, "left")            \* raised before the try/finally
    ELSE IF ~ScanFile(env.scan)
    THEN Uploaded(FALSE, FALSE, "removed")
    ELSE IF TypeChecked(env.expected) /\ env.actual = <<"raises">>
    THEN Uploaded(FALSE, FALSE, "removed")
    ELSE IF TypeChecked(env.expected) /\ ~StartsWith(env.actual, env.expected)
    THEN Uploaded(FALSE, FALSE, "removed")
    ELSE IF env.store # "ok"
    THEN Uploaded(FALSE, FALSE, "removed")         \* S3Error, or another exception
    ELSE Uploaded(TRUE, TRUE, "removed")

UploadEnvs ==
    [ext      : {"png", "exe"},
     write    : {"ok", "raises"},
     scan     : {"OK", "FOUND", "ERROR", "missing", "none", "raises"},
     expected : {Absent, <<>>, <<"image">>, <<"image", "png">>},
     actual   : {<<"image", "png">>, <<"text", "plain">>, <<"raises">>},
     store    : {"ok", "S3Error", "raises"}]

\* a client uploads a file
Upload(env) ==
    /\ upload' = [step |-> "done", env |-> env, result |-> UploadFile(env)]
    /\ UNCHANGED <<notWeb, csrf, rbac, modfile>>

InitUpload ==
    /\ now = 0
    /\ SessionsIdle
    /\ LockoutIdle
    /\ TokenIdle
    /\ PasswordIdle
    /\ WebIdle

NextUpload ==
    /\ upload.step = "start"
    /\ \E env \in UploadEnvs : Upload(env)

SpecUpload == InitUpload /\ [][NextUpload]_vars

\* C29: upload_file stores an object only after the virus scan reported OK
\* and, when expected_type is given, after the MIME type check passed; when
\* the scanner reports anything else, errors or is unreachable, the upload
\* returns failure and nothing is stored; and the temporary file made for
\* the scan is removed on every path, success or failure.
C29_ScanBeforeStore ==
    upload.step = "done" =>
        LET e == upload.env
            r == upload.result
        IN  /\ r.stored =>
                  /\ e.scan = "OK"
                  /\ e.expected \notin {Absent, <<>>} =>
                        /\ Len(e.expected) <= Len(e.actual)
                        /\ \A i \in 1..Len(e.expected) : e.actual[i] = e.expected[i]
            /\ e.scan # "OK" => ~r.ok /\ ~r.stored
            /\ r.ok <=> r.stored
            /\ r.temp # "left"

-----------------------------------------------------------------------------
(* ContentModerator.moderate_file (src/app/core/moderation.py)             *)
(* A call is a coroutine: it gives way to the other calls of the event     *)
(* loop at each await (opening the temporary file, reading the upload,     *)
(* writing the copy, closing it) and runs from the scan to its return      *)
(* without giving way. The temporary copy is /tmp/<filename>, one path for *)
(* all calls with that filename.                                           *)
(* The surroundings of one call:                                           *)
(*   filename  file.filename                                               *)
(*   write     "ok", or "raises": reading the upload or writing the copy   *)
(*             raises after aiofiles.open made the file                    *)
(*   scan      what self.clam.scan does: the status of the one entry of    *)
(*             its result, "empty" (an empty dict), "none", or "raises"    *)
(*   detail    the second element of the entry: virus name or error text   *)

\* what a call returned, and whether its temporary path exists at the return
Moderated(safe, reason, temp) == [safe |-> safe, reason |-> reason, temp |-> temp]

\* temp_path = f"/tmp/{file.filename}"
TempPath(env) == "/tmp/" \o env.filename

\* "left" or "removed": the temporary path in a set of files
TempIn(files, env) == IF TempPath(env) \in files THEN "left" ELSE "removed"

\* lines 76-82: the answer for a scan that returned and a copy that was removed
ScanVerdict(env, temp) ==
    IF env.scan \in {"none", "empty"}
    THEN Moderated(TRUE, Absent, temp)                     \* "if scan_result:" is false
    ELSE IF env.scan = "FOUND"
    THEN Moderated(FALSE, "Malware detected: " \o env.detail, temp)
    ELSE Moderated(TRUE, Absent, temp)                     \* OK, ERROR

\* lines 84-86: the except clause
ScanError(temp) == Moderated(FALSE, "Error scanning file", temp)

ModerateEnvs ==
    [filename : {"a.txt", "b.png", "c.pdf"},
     write    : {"ok", "raises"},
     scan     : {"OK", "FOUND", "ERROR", "empty", "none", "raises"},
     detail   : {"Eicar-Test-Signature", "Can't access file", "lstat() failed"}]

\* lines 64-65: a file is handed to the moderator; aiofiles.open(temp_path,
\* 'wb') makes the file, or empties the one that is there
ModerateFileOpen(p, env) ==
    /\ modfile.calls[p].pc = "idle"
    /\ modfile' = [calls |-> [modfile.calls EXCEPT
                                ![p] = [pc |-> "opened", env |-> env, result |-> <<>>]],
                   files |-> modfile.files \cup {TempPath(env)}]
    /\ UNCHANGED <<notWeb, csrf, rbac, upload>>

\* line 66: content = await file.read()
ModerateFileRead(p) ==
    /\ modfile.calls[p].pc = "opened"
    /\ modfile' = [modfile EXCEPT !.calls[p].pc = "read"]
    /\ UNCHANGED <<notWeb, csrf, rbac, upload>>

\* line 67: await temp_file.write(content)
ModerateFileWrite(p) ==
    /\ modfile.calls[p].pc = "read"
    /\ modfile' = [modfile EXCEPT !.calls[p].pc =
                      IF modfile.calls[p].env.write = "raises" THEN "failing" ELSE "written"]
    /\ UNCHANGED <<notWeb, csrf, rbac, upload>>

\* leaving the async with: the file is closed; an exception raised inside
\* goes on to the except clause, which returns
ModerateFileClose(p) ==
    LET call == modfile.calls[p]
    IN  /\ call.pc \in {"written", "failing"}
        /\ modfile' =
              IF call.pc = "written"
              THEN [modfile EXCEPT !.calls[p].pc = "closed"]
              ELSE [modfile EXCEPT
                      !.calls[p].pc = "done",
                      !.calls[p].result = ScanError(TempIn(modfile.files, call.env))]
        /\ UNCHANGED <<notWeb, csrf, rbac, upload>>

\* lines 70-86: the scan, os.remove and the answer. os.remove raises when
\* another call has removed the path.
ModerateFileScan(p) ==
    LET call == modfile.calls[p]
        path == TempPath(call.env)
    IN  /\ call.pc = "closed"
        /\ modfile' =
              IF call.env.scan = "raises" \/ path \notin modfile.files
              THEN [modfile EXCEPT
                      !.calls[p].pc = "done",
                      !.calls[p].result = ScanError(TempIn(modfile.files, call.env))]
              ELSE [calls |-> [modfile.calls EXCEPT
                                 ![p].pc = "done",
                                 ![p].result = ScanVerdict(call.env, "removed")],
                    files |-> modfile.files \ {path}]
        /\ UNCHANGED <<notWeb, csrf, rbac, upload>>

InitModerate ==
    /\ now = 0
    /\ SessionsIdle
    /\ LockoutIdle
    /\ TokenIdle
    /\ PasswordIdle
    /\ WebIdle

NextModerate ==
    \/ \E p \in Procs, env \in ModerateEnvs : ModerateFileOpen(p, env)
    \/ \E p \in Procs : ModerateFileRead(p)
    \/ \E p \in Procs : ModerateFileWrite(p)
    \/ \E p \in Procs : ModerateFileClose(p)
    \/ \E p \in Procs : ModerateFileScan(p)

SpecModerate == InitModerate /\ [][NextModerate]_vars

\* C30: moderate_file reports a file safe only if the ClamAV scan completed
\* and reported the file clean: a scan that raises, reports an error status
\* other than FOUND, or returns no result is reported not safe; and the
\* temporary copy of the file is removed on every path.
C30_SafeOnlyIfClean ==
    \A p \in Procs :
        modfile.calls[p].pc = "done" =>
            /\ modfile.calls[p].result.safe =>
                  modfile.calls[p].env.write = "ok" /\ modfile.calls[p].env.scan = "OK"
            /\ modfile.calls[p].result.temp # "left"

=============================================================================
